---- MODULE Spec2Model ----
(***************************************************************************)
(* Pump selector (SeletorBombasapp): the selection engine of app2.py and   *)
(* appll.py.  The catalog is loaded and enriched once                      *)
(* (carregar_e_processar_dados); a query filters the enriched frame by     *)
(* flow and pressure band, ranks the candidates and truncates              *)
(* (filtrar_e_classificar); selecionar_bombas tries single, parallel and   *)
(* series operation in that order.                                         *)
(*                                                                         *)
(* Numbers.  Catalog flows, pressures, efficiencies and powers are         *)
(* integers.  A query target is carried in halves (vazao2 = 2 * vazao,     *)
(* pressao2 = 2 * pressao) so that vazao_desejada / 2 and                  *)
(* pressao_desejada / 2 are exact.  Margins are carried in thousandths     *)
(* (PRESSAO_MAX_MODELO * 0.03 is stored as PRESSAO_MAX_MODELO * 30).       *)
(* Rotor ranks are carried in hundredths (base + grau / 100 is stored as   *)
(* base * 100 + grau).  Arithmetic is exact (real), every comparison of    *)
(* the code is cross-multiplied to integers.  NaN is the value NaN below   *)
(* and compares as pandas compares it: equal to nothing, sorted last.      *)
(***************************************************************************)
EXTENDS Integers, Sequences, FiniteSets, TLC

\* ------------------------------------------------------------------ bounds
MaxLinhas == 3
MaxConcorrentes == 3

\* --------------------------------------------------------------- constants
NaN == -1
Inf == -2

MOTORES_PADRAO ==
    {15, 20, 25, 30, 40, 50, 60, 75, 100, 125, 150, 175, 200, 250, 300,
     350, 400, 450, 500, 550, 600}

Apps == {"app2", "appll"}

\* margin fractions of PRESSAO_MAX_MODELO, in thousandths
MargemApertada(a) == IF a = "app2" THEN 30 ELSE 15
MargemFolgada(a) == IF a = "app2" THEN 100 ELSE 50
\* boundary-exclusion fraction of app2, in thousandths
MargemExclusao == 30
\* efficiency gate of the single-pump stage
LimiteRendimento(a) == IF a = "app2" THEN 50 ELSE 60
\* defaults of filtrar_e_classificar (app2): fator_limitador = 0.025 = 1/40
FatorLimitadorInv == 40
limite_desempate_rendimento == 3

\* ----------------------------------------------------------------- helpers
Abs(x) == IF x < 0 THEN -x ELSE x
Min2(a, b) == IF a < b THEN a ELSE b
SetMin(S) == CHOOSE x \in S : \A y \in S : x <= y
SetMax(S) == CHOOSE x \in S : \A y \in S : x >= y
\* variant: NaN equals NaN
EqNum_nan_igual(a, b) == a = b
\* pandas/numpy ==: NaN equals nothing
EqNum(a, b) == a # NaN /\ b # NaN /\ a = b
\* groupby(...).transform("min"/"max"): NaN skipped, NaN if nothing is left
AggMin(S) == IF S \ {NaN} = {} THEN NaN ELSE SetMin(S \ {NaN})
AggMax(S) == IF S \ {NaN} = {} THEN NaN ELSE SetMax(S \ {NaN})

\* ------------------------------------------------- encontrar_motor_final
\* variant: the ladder value must exceed the power
encontrar_motor_final_estrito(num, den) ==
    LET candidatos == {m \in MOTORES_PADRAO : m * den > num}
    IN IF candidatos # {} THEN SetMin(candidatos) ELSE NaN

\* smallest ladder value >= num/den (den > 0); NaN above the ladder
encontrar_motor_final(num, den) ==
    LET candidatos == {m \in MOTORES_PADRAO : m * den >= num}
    IN IF candidatos # {} THEN SetMin(candidatos) ELSE NaN

\* ----------------------------------------------------- extrair_rotor_num
\* A rotor label is a sequence of characters.
Digitos == {"0", "1", "2", "3", "4", "5", "6", "7", "8", "9"}
DigVal(c) ==
    CASE c = "0" -> 0 [] c = "1" -> 1 [] c = "2" -> 2 [] c = "3" -> 3
      [] c = "4" -> 4 [] c = "5" -> 5 [] c = "6" -> 6 [] c = "7" -> 7
      [] c = "8" -> 8 [] c = "9" -> 9

RECURSIVE ContaDigitos(_, _)
\* length of the run of digits of s that starts at position i
ContaDigitos(s, i) ==
    IF i <= Len(s) /\ s[i] \in Digitos THEN 1 + ContaDigitos(s, i + 1) ELSE 0

RECURSIVE ContaEspacos(_, _)
ContaEspacos(s, i) ==
    IF i <= Len(s) /\ s[i] = " " THEN 1 + ContaEspacos(s, i + 1) ELSE 0

RECURSIVE ValorDigitos(_, _, _)
\* int() of the n digits of s that start at position i
ValorDigitos(s, i, n) ==
    IF n = 0 THEN 0
    ELSE ValorDigitos(s, i, n - 1) * 10 + DigVal(s[i + n - 1])

\* re.match(r"(\d+)(?:\s*\((\d+)°\))?", rotor): rank in hundredths, or NaN
extrair_rotor_num(s) ==
    LET n1 == ContaDigitos(s, 1)
        k  == n1 + 1 + ContaEspacos(s, n1 + 1)
        n2 == ContaDigitos(s, k + 1)
        temGrau == /\ k <= Len(s) /\ s[k] = "("
                   /\ n2 >= 1
                   /\ k + n2 + 2 <= Len(s)
                   /\ s[k + n2 + 1] = "°"
                   /\ s[k + n2 + 2] = ")"
        base == ValorDigitos(s, 1, n1)
        grau == IF temGrau THEN ValorDigitos(s, k + 1, n2) ELSE 0
    IN IF n1 >= 1 THEN base * 100 + grau ELSE NaN

\* ------------------------------------------- carregar_e_processar_dados
\* one enriched row of the frame, for row i of the file arq
LinhaProcessada(arq, i) ==
    LET r == arq[i]
        doModelo == {j \in 1..Len(arq) : arq[j].MODELO = r.MODELO}
        daCurva == {j \in doModelo : arq[j].ROTOR = r.ROTOR}
        vmin == SetMin({arq[j].VAZAO : j \in daCurva})
        vmax == SetMax({arq[j].VAZAO : j \in daCurva})
    IN [idx |-> i,
        MODELO |-> r.MODELO, ROTOR |-> r.ROTOR, VAZAO |-> r.VAZAO,
        PRESSAO |-> r.PRESSAO, RENDIMENTO |-> r.RENDIMENTO,
        POTENCIA |-> r.POTENCIA,
        MOTOR_PADRAO |-> encontrar_motor_final(r.POTENCIA, 1),
        ROTORNUM |-> extrair_rotor_num(r.ROTOR),
        ROTOR_MIN_MODELO |->
            AggMin({extrair_rotor_num(arq[j].ROTOR) : j \in doModelo}),
        ROTOR_MAX_MODELO |->
            AggMax({extrair_rotor_num(arq[j].ROTOR) : j \in doModelo}),
        PRESSAO_MAX_MODELO |-> SetMax({arq[j].PRESSAO : j \in doModelo}),
        POTENCIA_MAX_FAMILIA |-> SetMax({arq[j].POTENCIA : j \in doModelo}),
        vmin |-> vmin, vmax |-> vmax,
        \* ERRO_RELATIVO = ERRO_NUM / ERRO_DEN (times 100 in app2); the
        \* quotient is NaN when ERRO_DEN = 0
        ERRO_NUM |-> 2 * r.VAZAO - (vmin + vmax),
        ERRO_DEN |-> 2 * (vmax - vmin),
        margem_cima |-> NaN, margem_baixo |-> NaN]

carregar_e_processar_dados(arq) ==
    [i \in 1..Len(arq) |-> LinhaProcessada(arq, i)]

\* ------------------------------------------------- filtrar_e_classificar
cond_max(r) == EqNum(r.ROTORNUM, r.ROTOR_MAX_MODELO)
cond_min(r) == EqNum(r.ROTORNUM, r.ROTOR_MIN_MODELO)

\* np.select([cond_max, cond_min], [...], default): the first true wins
MargemCima(a, r) ==
    IF cond_max(r) THEN r.PRESSAO_MAX_MODELO * MargemApertada(a)
    ELSE IF cond_min(r) THEN r.PRESSAO_MAX_MODELO * MargemFolgada(a)
    ELSE r.PRESSAO_MAX_MODELO * MargemFolgada(a)

MargemBaixo(a, r) ==
    IF cond_max(r) THEN r.PRESSAO_MAX_MODELO * MargemFolgada(a)
    ELSE IF cond_min(r) THEN r.PRESSAO_MAX_MODELO * MargemApertada(a)
    ELSE r.PRESSAO_MAX_MODELO * MargemFolgada(a)

\* df['margem_cima'] = ...; df['margem_baixo'] = ...: written into the
\* frame that was passed in
EscreverMargens(a, d) ==
    [i \in 1..Len(d) |->
        [d[i] EXCEPT !.margem_cima = MargemCima(a, d[i]),
                     !.margem_baixo = MargemBaixo(a, d[i])]]

\* variant: the flow is not compared
Admissao_sem_vazao(r, vazao2, pressao2) ==
    /\ 2000 * r.PRESSAO >= 1000 * pressao2 - 2 * r.margem_baixo
    /\ 2000 * r.PRESSAO <= 1000 * pressao2 + 2 * r.margem_cima

\* the admission mask: flow equal, pressure within
\* [pressao - margem_baixo, pressao + margem_cima]
Admissao(r, vazao2, pressao2) ==
    /\ 2 * r.VAZAO = vazao2
    /\ 2000 * r.PRESSAO >= 1000 * pressao2 - 2 * r.margem_baixo
    /\ 2000 * r.PRESSAO <= 1000 * pressao2 + 2 * r.margem_cima

\* variant: only the minimum rotor is cut back
Excluido_so_minimo(r, pressao2) ==
    /\ cond_min(r)
    /\ 1000 * pressao2
         < 2000 * r.PRESSAO - 2 * MargemExclusao * r.PRESSAO_MAX_MODELO

\* app2 only: the rows dropped after the admission mask
Excluido(r, pressao2) ==
    \/ /\ cond_min(r)
       /\ 1000 * pressao2
            < 2000 * r.PRESSAO - 2 * MargemExclusao * r.PRESSAO_MAX_MODELO
    \/ /\ cond_max(r)
       /\ 1000 * pressao2
            > 2000 * r.PRESSAO + 2 * MargemExclusao * r.PRESSAO_MAX_MODELO

\* df_filtrado: the admissible candidates, in frame order
Filtrar(a, d, vazao2, pressao2) ==
    LET dm == EscreverMargens(a, d)
        Passa(r) == /\ Admissao(r, vazao2, pressao2)
                    /\ (a = "app2" => ~Excluido(r, pressao2))
    IN SelectSeq(dm, Passa)

\* variant: the mask is applied to the caller's frame itself
df_apos_filtrar_no_lugar(a, d, vazao2, pressao2) ==
    Filtrar(a, d, vazao2, pressao2)

\* the caller's frame as one call of filtrar_e_classificar leaves it
df_apos_filtrar(a, d, vazao2, pressao2) == EscreverMargens(a, d)

Clip(x, lo, hi) == IF x < lo THEN lo ELSE IF x > hi THEN hi ELSE x

\* POTENCIA CORRIGIDA (HP) of app2 as the fraction num / den
PotCorrDen(pressao2) == IF pressao2 > 0 THEN FatorLimitadorInv * pressao2 ELSE FatorLimitadorInv
PotCorrNum(r, pressao2) ==
    LET erro2 == 2 * r.PRESSAO - pressao2
        den == PotCorrDen(pressao2)
        p2 == IF pressao2 > 0 THEN pressao2 ELSE 1
        bruto == IF pressao2 > 0
                 THEN FatorLimitadorInv * r.POTENCIA * erro2
                 ELSE 0
        limite == r.POTENCIA_MAX_FAMILIA * p2
    IN den * r.POTENCIA - Clip(bruto, -limite, limite)

\* the candidate with the columns both rankings use
Candidato(a, r, pressao2) ==
    LET erro2 == 2 * r.PRESSAO - pressao2
        num == IF a = "app2" THEN PotCorrNum(r, pressao2) ELSE NaN
        den == IF a = "app2" THEN PotCorrDen(pressao2) ELSE NaN
    IN [idx |-> r.idx, MODELO |-> r.MODELO, ROTOR |-> r.ROTOR,
        VAZAO |-> r.VAZAO, PRESSAO |-> r.PRESSAO,
        RENDIMENTO |-> r.RENDIMENTO, POTENCIA |-> r.POTENCIA,
        ERRO_PRESSAO2 |-> IF a = "app2" THEN erro2 ELSE Abs(erro2),
        ERRO_NUM |-> IF a = "app2" THEN r.ERRO_NUM ELSE Abs(r.ERRO_NUM),
        ERRO_DEN |-> r.ERRO_DEN,
        POT_CORR_NUM |-> num, POT_CORR_DEN |-> den, CHAVE |-> NaN,
        MOTOR |-> IF a = "app2" THEN encontrar_motor_final(num, den)
                  ELSE r.MOTOR_PADRAO]

\* ---- ordering: three-way comparisons, NaN last whatever the direction
Sinal(x) == IF x < 0 THEN -1 ELSE IF x > 0 THEN 1 ELSE 0
CmpNaN(xnan, ynan, c) ==
    IF xnan /\ ynan THEN 0 ELSE IF xnan THEN 1 ELSE IF ynan THEN -1 ELSE c
\* variant: NaN takes no special place (it sorts as the number it is)
CmpAsc_sem_nan(x, y) == Sinal(x - y)
CmpAsc(x, y) == CmpNaN(x = NaN, y = NaN, Sinal(x - y))
CmpDesc(x, y) == CmpNaN(x = NaN, y = NaN, Sinal(y - x))
\* |ERRO_NUM / ERRO_DEN| ascending, NaN (ERRO_DEN = 0) last
CmpErroRel(x, y) ==
    CmpNaN(x.ERRO_DEN = 0, y.ERRO_DEN = 0,
           Sinal(Abs(x.ERRO_NUM) * y.ERRO_DEN - Abs(y.ERRO_NUM) * x.ERRO_DEN))

\* lexicographic combination of three-way results
RECURSIVE Lex(_)
Lex(cs) == IF cs = <<>> THEN 0
           ELSE IF Head(cs) # 0 THEN Head(cs) ELSE Lex(Tail(cs))

\* the key sequences of the three sort_values calls
\* app2, first sort: MOTOR FINAL ascending, RENDIMENTO descending
CmpPreparo(x, y) ==
    Lex(<<CmpAsc(x.MOTOR, y.MOTOR), CmpDesc(x.RENDIMENTO, y.RENDIMENTO)>>)

\* variant: a NaN key is not set apart from the finite ones
ChaveClasse_nan_finito(x) == IF x.CHAVE = Inf THEN 1 ELSE 0
\* CHAVE_DESEMPATE ascending: finite |ERRO_RELATIVO| < inf < NaN
ChaveClasse(x) ==
    IF x.CHAVE = Inf THEN 1 ELSE IF x.ERRO_DEN = 0 THEN 2 ELSE 0
CmpChave(x, y) ==
    IF ChaveClasse(x) # ChaveClasse(y)
    THEN Sinal(ChaveClasse(x) - ChaveClasse(y))
    ELSE IF ChaveClasse(x) = 0 THEN CmpErroRel(x, y) ELSE 0

\* variant: after the key the final sort looks at |ERRO_PRESSAO| only
CmpFinal_erro_pressao(x, y) ==
    Lex(<<CmpAsc(x.MOTOR, y.MOTOR), CmpChave(x, y),
          Sinal(Abs(x.ERRO_PRESSAO2) - Abs(y.ERRO_PRESSAO2))>>)
\* app2, final sort: MOTOR FINAL, CHAVE_DESEMPATE, RENDIMENTO descending,
\* POTENCIA CORRIGIDA (same denominator for every row of one call)
CmpFinal(x, y) ==
    Lex(<<CmpAsc(x.MOTOR, y.MOTOR), CmpChave(x, y),
          CmpDesc(x.RENDIMENTO, y.RENDIMENTO),
          Sinal(x.POT_CORR_NUM - y.POT_CORR_NUM)>>)

\* variant: the sort stops at erro_relativo
CmpSimples_sem_erro_pressao(x, y) ==
    Lex(<<CmpAsc(x.MOTOR, y.MOTOR), CmpDesc(x.RENDIMENTO, y.RENDIMENTO),
          CmpErroRel(x, y)>>)
\* appll: Motor (HP), Rendimento descending, erro_relativo, erro_pressao
CmpSimples(x, y) ==
    Lex(<<CmpAsc(x.MOTOR, y.MOTOR), CmpDesc(x.RENDIMENTO, y.RENDIMENTO),
          CmpErroRel(x, y), Sinal(x.ERRO_PRESSAO2 - y.ERRO_PRESSAO2)>>)

Cmp(ordem, x, y) ==
    CASE ordem = "preparo" -> CmpPreparo(x, y)
      [] ordem = "final" -> CmpFinal(x, y)
      [] ordem = "simples" -> CmpSimples(x, y)

RECURSIVE Inserir(_, _, _)
\* x placed after every element it does not strictly precede (stable)
Inserir(s, x, ordem) ==
    IF s = <<>> THEN <<x>>
    ELSE IF Cmp(ordem, x, Head(s)) < 0 THEN <<x>> \o s
    ELSE <<Head(s)>> \o Inserir(Tail(s), x, ordem)

RECURSIVE Ordenar(_, _)
\* sort_values on several keys: stable
Ordenar(s, ordem) ==
    IF s = <<>> THEN <<>>
    ELSE Inserir(Ordenar(SubSeq(s, 1, Len(s) - 1), ordem), s[Len(s)], ordem)

\* groupby('MOTOR FINAL (CV)')['RENDIMENTO (%)'].diff(-1).abs() at position
\* i of s: against the next row of the same motor group; NaN for the last
\* row of a group and for rows whose motor is NaN (groupby drops them)
DiffConsecutivo(s, i) ==
    LET prox == {j \in (i + 1)..Len(s) : EqNum(s[j].MOTOR, s[i].MOTOR)}
    IN IF s[i].MOTOR = NaN \/ prox = {} THEN NaN
       ELSE Abs(s[i].RENDIMENTO - s[SetMin(prox)].RENDIMENTO)

\* CHAVE_DESEMPATE: 0 stands for "ABS_ERRO_RELATIVO of the row" (possibly
\* NaN), Inf for np.inf
ComChave(s) ==
    [i \in 1..Len(s) |->
        [s[i] EXCEPT !.CHAVE =
            IF /\ DiffConsecutivo(s, i) # NaN
               /\ DiffConsecutivo(s, i) <= limite_desempate_rendimento
            THEN 0 ELSE Inf]]

\* the complete ranking of the candidates f (df_filtrado)
Classificar(a, f, pressao2) ==
    LET c == [i \in 1..Len(f) |-> Candidato(a, f[i], pressao2)]
    IN IF a = "app2"
       THEN Ordenar(ComChave(Ordenar(c, "preparo")), "final")
       ELSE Ordenar(c, "simples")

\* .head(top_n)
Cabeca(s, n) == SubSeq(s, 1, Min2(n, Len(s)))

\* df_resultado[colunas_finais]: the returned columns; idx is the index
\* label the row keeps from the frame
Colunas(s) ==
    [i \in 1..Len(s) |->
        [idx |-> s[i].idx, MODELO |-> s[i].MODELO, ROTOR |-> s[i].ROTOR,
         VAZAO |-> s[i].VAZAO, PRESSAO |-> s[i].PRESSAO,
         ERRO_PRESSAO2 |-> s[i].ERRO_PRESSAO2,
         ERRO_NUM |-> s[i].ERRO_NUM, ERRO_DEN |-> s[i].ERRO_DEN,
         RENDIMENTO |-> s[i].RENDIMENTO, POTENCIA |-> s[i].POTENCIA,
         POT_CORR_NUM |-> s[i].POT_CORR_NUM,
         POT_CORR_DEN |-> s[i].POT_CORR_DEN,
         MOTOR |-> s[i].MOTOR]]

\* variant: head(top_n) taken before the ranking
filtrar_e_classificar_trunca_antes(a, d, vazao2, pressao2, top_n) ==
    Colunas(Classificar(a, Cabeca(Filtrar(a, d, vazao2, pressao2), top_n),
                        pressao2))

\* the rows returned
filtrar_e_classificar(a, d, vazao2, pressao2, top_n) ==
    Cabeca(Colunas(Classificar(a, Filtrar(a, d, vazao2, pressao2), pressao2)),
           top_n)

\* ------------------------------------------------------ selecionar_bombas
\* variant: the series stage is tried before the parallel stage
selecionar_bombas_serie_antes(a, d, F, P, top_n) ==
    LET d1 == EscreverMargens(a, d)
        resultado_unico == filtrar_e_classificar(a, d, 2 * F, 2 * P, top_n)
        resultado_paralelo == filtrar_e_classificar(a, d1, F, 2 * P, top_n)
        resultado_serie == filtrar_e_classificar(a, d1, 2 * F, P, top_n)
    IN IF /\ resultado_unico # <<>>
          /\ resultado_unico[1].RENDIMENTO > LimiteRendimento(a)
       THEN [resultado |-> resultado_unico, tipo |-> "unica", df |-> d1]
       ELSE IF resultado_serie # <<>>
       THEN [resultado |-> resultado_serie, tipo |-> "serie", df |-> d1]
       ELSE IF resultado_paralelo # <<>>
       THEN [resultado |-> resultado_paralelo, tipo |-> "paralelo", df |-> d1]
       ELSE [resultado |-> <<>>, tipo |-> "nenhuma", df |-> d1]

\* variant: with nothing in parallel or in series, the single-pump rows
\* come back whatever their efficiency
selecionar_bombas_relaxado(a, d, F, P, top_n) ==
    LET d1 == EscreverMargens(a, d)
        resultado_unico == filtrar_e_classificar(a, d, 2 * F, 2 * P, top_n)
        resultado_paralelo == filtrar_e_classificar(a, d1, F, 2 * P, top_n)
        resultado_serie == filtrar_e_classificar(a, d1, 2 * F, P, top_n)
    IN IF /\ resultado_unico # <<>>
          /\ resultado_unico[1].RENDIMENTO > LimiteRendimento(a)
       THEN [resultado |-> resultado_unico, tipo |-> "unica", df |-> d1]
       ELSE IF resultado_paralelo # <<>>
       THEN [resultado |-> resultado_paralelo, tipo |-> "paralelo", df |-> d1]
       ELSE IF resultado_serie # <<>>
       THEN [resultado |-> resultado_serie, tipo |-> "serie", df |-> d1]
       ELSE IF resultado_unico # <<>>
       THEN [resultado |-> resultado_unico, tipo |-> "unica", df |-> d1]
       ELSE [resultado |-> <<>>, tipo |-> "nenhuma", df |-> d1]

\* F, P: the desired flow and pressure; the three stages read the frame as
\* the calls before them left it
selecionar_bombas(a, d, F, P, top_n) ==
    LET d1 == df_apos_filtrar(a, d, 2 * F, 2 * P)
        d2 == df_apos_filtrar(a, d1, F, 2 * P)
        d3 == df_apos_filtrar(a, d2, 2 * F, P)
        resultado_unico == filtrar_e_classificar(a, d, 2 * F, 2 * P, top_n)
        resultado_paralelo == filtrar_e_classificar(a, d1, F, 2 * P, top_n)
        resultado_serie == filtrar_e_classificar(a, d2, 2 * F, P, top_n)
    IN IF /\ resultado_unico # <<>>
          /\ resultado_unico[1].RENDIMENTO > LimiteRendimento(a)
       THEN [resultado |-> resultado_unico, tipo |-> "unica", df |-> d1]
       ELSE IF resultado_paralelo # <<>>
       THEN [resultado |-> resultado_paralelo, tipo |-> "paralelo", df |-> d2]
       ELSE IF resultado_serie # <<>>
       THEN [resultado |-> resultado_serie, tipo |-> "serie", df |-> d3]
       ELSE [resultado |-> <<>>, tipo |-> "nenhuma", df |-> d3]

\* ------------------------------------------------------------ the inputs
\* rows a catalog file is made of: MODELO, ROTOR, VAZAO, PRESSAO,
\* RENDIMENTO, POTENCIA
Linha(m, rot, v, p, e, pot) ==
    [MODELO |-> m, ROTOR |-> rot, VAZAO |-> v, PRESSAO |-> p,
     RENDIMENTO |-> e, POTENCIA |-> pot]

LinhasPossiveis ==
    << Linha("A", <<"1">>, 100, 100, 65, 15),
       Linha("A", <<"2", " ", "(", "5", "0", "°", ")">>, 100, 104, 60, 20),
       Linha("A", <<"3">>, 100, 100, 50, 15),
       Linha("A", <<"x">>, 100, 96, 65, 20),
       Linha("A", <<"1">>, 50, 100, 50, 20),
       Linha("B", <<"7">>, 100, 100, 60, 700),
       Linha("B", <<"7">>, 50, 98, 65, 610),
       Linha("B", <<"1", "2">>, 100, 100, 57, 15),
       Linha("C", <<"5">>, 50, 200, 50, 20) >>

\* a catalog file: at most MaxLinhas of the possible rows, in their order
Arquivos ==
    {[i \in 1..Cardinality(S) |->
        LinhasPossiveis[CHOOSE k \in S : Cardinality({j \in S : j <= k}) = i]] :
     S \in {T \in SUBSET (1..Len(LinhasPossiveis)) :
                Cardinality(T) <= MaxLinhas}}

VazoesDesejadas == {100, 200}
VazoesAlvo == {50, 100}
PressoesDesejadas ==
    {90, 92, 95, 97, 100, 103, 104, 105, 110, 197, 200, 203}
\* top_n: 5 is the default
TopNs == {0, 1, 2, 5}

\* ------------------------------------------------------------------ state
VARIABLES
    app,        \* which program runs: "app2" or "appll"
    arquivo,    \* the rows of the catalog file
    cache,      \* what st.cache_data keeps: the frame as the load returned it
    df,         \* df_processado: the enriched frame the queries are given
    pc,         \* "idle": waiting for a query; "done": a query returned
    chamada,    \* the function the last query called
    entrada,    \* its arguments
    resultado,  \* the rows it returned
    tipo,       \* the mode tag selecionar_bombas returned
    reuso       \* the frame the last query was given had served a query

vars == <<app, arquivo, cache, df, pc, chamada, entrada, resultado, tipo, reuso>>

SemEntrada == [vazao |-> 0, pressao |-> 0, top_n |-> 0]

Init ==
    /\ app \in Apps
    /\ arquivo \in Arquivos
    /\ cache = carregar_e_processar_dados(arquivo)
    /\ df = cache
    /\ pc = "idle"
    /\ chamada = "nenhuma"
    /\ entrada = SemEntrada
    /\ resultado = <<>>
    /\ tipo = "nenhuma"
    /\ reuso = FALSE

\* resultado, tipo = selecionar_bombas(df_processado, vazao, pressao, top_n)
Buscar ==
    /\ pc = "idle"
    /\ \E F \in VazoesDesejadas, P \in PressoesDesejadas, n \in TopNs :
          LET s == selecionar_bombas(app, df, F, P, n)
          IN /\ resultado' = s.resultado
             /\ tipo' = s.tipo
             /\ df' = s.df
             /\ entrada' = [vazao |-> F, pressao |-> P, top_n |-> n]
    /\ chamada' = "selecionar_bombas"
    /\ pc' = "done"
    /\ reuso' = (df # cache)
    /\ UNCHANGED <<app, arquivo, cache>>

\* resultado = filtrar_e_classificar(df_processado, vazao, pressao, top_n)
FiltrarClassificar ==
    /\ pc = "idle"
    /\ \E v \in VazoesAlvo, p \in PressoesDesejadas, n \in TopNs :
          /\ resultado' = filtrar_e_classificar(app, df, 2 * v, 2 * p, n)
          /\ df' = df_apos_filtrar(app, df, 2 * v, 2 * p)
          /\ entrada' = [vazao |-> v, pressao |-> p, top_n |-> n]
    /\ tipo' = "nenhuma"
    /\ chamada' = "filtrar_e_classificar"
    /\ pc' = "done"
    /\ reuso' = (df # cache)
    /\ UNCHANGED <<app, arquivo, cache>>

\* the script runs again and the last answer is gone; the frame is the one
\* the last query left, or a fresh copy of the cached load
Rerun ==
    /\ pc = "done"
    /\ pc' = "idle"
    /\ df' \in {df, cache}
    /\ chamada' = "nenhuma"
    /\ entrada' = SemEntrada
    /\ resultado' = <<>>
    /\ tipo' = "nenhuma"
    /\ reuso' = FALSE
    /\ UNCHANGED <<app, arquivo, cache>>

Next == Buscar \/ FiltrarClassificar \/ Rerun

Spec == Init /\ [][Next]_vars

\* ------------------------------------------------- catalogs for the ranking
\* Curve points at other flows: with them a row at flow 100 of A "1" lies
\* inside its flow band (50..200) and one of B "7" at the end of its band
\* (50..100); every catalog of this family holds them
LinhasDeCurva ==
    << Linha("A", <<"1">>, 50, 100, 50, 20),
       Linha("A", <<"1">>, 200, 100, 50, 20),
       Linha("B", <<"7">>, 50, 98, 65, 20) >>

\* rows at flow 100 that compete for one duty point
LinhasConcorrentes ==
    << Linha("B", <<"7">>, 100, 102, 60, 15),
       Linha("B", <<"7">>, 100, 100, 60, 15),
       Linha("B", <<"1", "2">>, 100, 100, 60, 15),
       Linha("A", <<"1">>, 100, 100, 60, 15),
       Linha("A", <<"1">>, 100, 100, 57, 15),
       Linha("B", <<"1", "2">>, 100, 102, 65, 15),
       Linha("A", <<"1">>, 100, 100, 65, 20),
       Linha("C", <<"5">>, 100, 100, 60, 700),
       Linha("B", <<"7">>, 100, 100, 60, 710) >>

\* a catalog file: the curve points, then at most MaxConcorrentes of the
\* competing rows, in their order
ArquivosDeClassificacao ==
    {LinhasDeCurva \o
     [i \in 1..Cardinality(S) |->
        LinhasConcorrentes[
            CHOOSE k \in S : Cardinality({j \in S : j <= k}) = i]] :
     S \in {T \in SUBSET (1..Len(LinhasConcorrentes)) :
                Cardinality(T) <= MaxConcorrentes}}

InitClassificacao ==
    /\ app \in Apps
    /\ arquivo \in ArquivosDeClassificacao
    /\ cache = carregar_e_processar_dados(arquivo)
    /\ df = cache
    /\ pc = "idle"
    /\ chamada = "nenhuma"
    /\ entrada = SemEntrada
    /\ resultado = <<>>
    /\ tipo = "nenhuma"
    /\ reuso = FALSE

SpecClassificacao == InitClassificacao /\ [][Next]_vars

\* ------------------------------------------------------------ properties
Selecionou == pc = "done" /\ chamada = "selecionar_bombas"
Filtrou == pc = "done" /\ chamada = "filtrar_e_classificar"

\* the three stages of the query that just returned, each taken alone
EstagioUnico ==
    filtrar_e_classificar(app, df, 2 * entrada.vazao, 2 * entrada.pressao,
                          entrada.top_n)
EstagioParalelo ==
    filtrar_e_classificar(app, df, entrada.vazao, 2 * entrada.pressao,
                          entrada.top_n)
EstagioSerie ==
    filtrar_e_classificar(app, df, 2 * entrada.vazao, entrada.pressao,
                          entrada.top_n)
UnicoQualifica ==
    /\ EstagioUnico # <<>>
    /\ EstagioUnico[1].RENDIMENTO > (IF app = "app2" THEN 50 ELSE 60)

\* C1: selecionar_bombas returns the single-pump stage with tag "unica" iff
\* that stage is non-empty and its first row's efficiency is above the
\* threshold (50 in app2, 60 in appll); otherwise the parallel stage with
\* tag "paralelo" iff it is non-empty; otherwise the series stage with tag
\* "serie" iff it is non-empty; otherwise nothing with tag "nenhuma".
C1_FallbackOrdenado ==
    Selecionou =>
        /\ (tipo = "unica") <=> UnicoQualifica
        /\ (tipo = "unica") => resultado = EstagioUnico
        /\ (tipo = "paralelo") <=> (~UnicoQualifica /\ EstagioParalelo # <<>>)
        /\ (tipo = "paralelo") => resultado = EstagioParalelo
        /\ (tipo = "serie") <=>
              (~UnicoQualifica /\ EstagioParalelo = <<>> /\ EstagioSerie # <<>>)
        /\ (tipo = "serie") => resultado = EstagioSerie
        /\ (tipo = "nenhuma") <=>
              (~UnicoQualifica /\ EstagioParalelo = <<>> /\ EstagioSerie = <<>>)
        /\ (tipo = "nenhuma") => resultado = <<>>

\* the parallel stage was returned although the series stage had rows too
C1_Witness ==
    /\ Selecionou
    /\ tipo = "paralelo"
    /\ resultado # <<>>
    /\ EstagioSerie # <<>>

\* C2: every row filtrar_e_classificar returns has the target flow; every
\* row selecionar_bombas returns has the desired flow in modes "unica" and
\* "serie" and half the desired flow in mode "paralelo".
C2_VazaoExata ==
    pc = "done" =>
        \A i \in 1..Len(resultado) :
            /\ chamada = "filtrar_e_classificar" =>
                  resultado[i].VAZAO = entrada.vazao
            /\ (chamada = "selecionar_bombas" /\ tipo \in {"unica", "serie"}) =>
                  resultado[i].VAZAO = entrada.vazao
            /\ (chamada = "selecionar_bombas" /\ tipo = "paralelo") =>
                  2 * resultado[i].VAZAO = entrada.vazao

\* rows came back in parallel mode, from a catalog that also has rows of
\* another flow
C2_Witness ==
    /\ Selecionou
    /\ tipo = "paralelo"
    /\ Len(resultado) >= 2
    /\ \E i \in 1..Len(df) : 2 * df[i].VAZAO # entrada.vazao

\* C3: in the returned rows the motor size never decreases with position,
\* and a row without a motor size comes after every row that has one.
C3_MotorMonotonico ==
    pc = "done" =>
        \A i, j \in 1..Len(resultado) :
            i < j =>
                /\ resultado[i].MOTOR = NaN => resultado[j].MOTOR = NaN
                /\ (resultado[i].MOTOR # NaN /\ resultado[j].MOTOR # NaN) =>
                      resultado[i].MOTOR <= resultado[j].MOTOR

\* three rows came back: two motor sizes and a row without one, which was
\* not last in the frame
C3_Witness ==
    /\ pc = "done"
    /\ Len(resultado) = 3
    /\ resultado[1].MOTOR # NaN
    /\ resultado[2].MOTOR # NaN
    /\ resultado[1].MOTOR < resultado[2].MOTOR
    /\ resultado[3].MOTOR = NaN
    /\ resultado[3].idx < Len(df)

\* C4: filtrar_e_classificar returns min(top_n, number of admissible
\* candidates) rows, and they are the first rows of the complete ranking of
\* all the admissible candidates.
C4_Truncamento ==
    Filtrou =>
        LET f == Filtrar(app, df, 2 * entrada.vazao, 2 * entrada.pressao)
            completo == Colunas(Classificar(app, f, 2 * entrada.pressao))
            n == IF entrada.top_n < Len(f) THEN entrada.top_n ELSE Len(f)
        IN /\ Len(resultado) = n
           /\ Len(completo) = Len(f)
           /\ {completo[i].idx : i \in 1..Len(completo)}
                 = {f[i].idx : i \in 1..Len(f)}
           /\ resultado = SubSeq(completo, 1, n)

\* fewer rows than candidates came back, and the ranking had moved a
\* candidate that the frame holds later ahead of the first one
C4_Witness ==
    /\ Filtrou
    /\ entrada.top_n >= 1
    /\ LET f == Filtrar(app, df, 2 * entrada.vazao, 2 * entrada.pressao)
       IN /\ Len(f) > entrada.top_n
          /\ Len(resultado) = entrada.top_n
          /\ resultado[1].idx # f[1].idx

\* the frame as the load left it, before any query
QuadroCarregado == cache

\* C5: a query's answer (rows, their order and the mode tag) is the answer
\* the same arguments get on the freshly loaded catalog, whatever queries
\* ran on the frame before it.
C5_Idempotente ==
    /\ Selecionou =>
          LET s == selecionar_bombas(app, QuadroCarregado, entrada.vazao,
                                     entrada.pressao, entrada.top_n)
          IN resultado = s.resultado /\ tipo = s.tipo
    /\ Filtrou =>
          resultado = filtrar_e_classificar(app, QuadroCarregado,
                          2 * entrada.vazao, 2 * entrada.pressao,
                          entrada.top_n)

\* a query on a frame that had served another one returned rows
C5_Witness ==
    /\ Selecionou
    /\ reuso
    /\ Len(resultado) >= 2

\* C6: a call of filtrar_e_classificar or selecionar_bombas leaves the
\* frame it was given as it was (rows, columns, cell values).
C6_QuadroInalterado == [][pc = "idle" => df' = df]_vars

\* C7: when the single-pump stage has rows but its first row's efficiency
\* is not above the threshold, and the parallel and series stages are
\* empty, selecionar_bombas returns nothing with tag "nenhuma"; the rows are
\* empty iff the tag is "nenhuma".
C7_SemRelaxamento ==
    Selecionou =>
        /\ ( /\ EstagioUnico # <<>>
             /\ EstagioUnico[1].RENDIMENTO <= (IF app = "app2" THEN 50 ELSE 60)
             /\ EstagioParalelo = <<>>
             /\ EstagioSerie = <<>> )
           => (resultado = <<>> /\ tipo = "nenhuma")
        /\ (resultado = <<>>) <=> (tipo = "nenhuma")

\* the single-pump stage had rows, none good enough, and nothing else had
C7_Witness ==
    /\ Selecionou
    /\ EstagioUnico # <<>>
    /\ EstagioParalelo = <<>>
    /\ EstagioSerie = <<>>
    /\ tipo = "nenhuma"

\* the tight and loose margin fractions of each program's configuration,
\* in thousandths
FracApertada == IF app = "app2" THEN 30 ELSE 15
FracFolgada == IF app = "app2" THEN 100 ELSE 50
SoMaximo(r) ==
    /\ r.ROTORNUM # NaN
    /\ r.ROTORNUM = r.ROTOR_MAX_MODELO
    /\ r.ROTORNUM # r.ROTOR_MIN_MODELO
SoMinimo(r) ==
    /\ r.ROTORNUM # NaN
    /\ r.ROTORNUM = r.ROTOR_MIN_MODELO
    /\ r.ROTORNUM # r.ROTOR_MAX_MODELO
\* pressao within [r.PRESSAO - baixo * Pmax, r.PRESSAO + cima * Pmax]
AlvoNaFaixa(r, pressao2, baixo, cima) ==
    /\ 1000 * pressao2 >= 2000 * r.PRESSAO - 2 * baixo * r.PRESSAO_MAX_MODELO
    /\ 1000 * pressao2 <= 2000 * r.PRESSAO + 2 * cima * r.PRESSAO_MAX_MODELO

\* C8: a maximum-rotor (not minimum) record passes the admission test iff
\* its flow is the target flow and the target pressure is within
\* [pressure - b * Pmax, pressure + a * Pmax]; a minimum-rotor (not maximum)
\* record iff its flow is the target flow and the target pressure is within
\* [pressure - a * Pmax, pressure + b * Pmax] (a tight, b loose).
C8_FaixaAssimetrica ==
    Filtrou =>
        \A i \in 1..Len(df) :
            /\ SoMaximo(df[i]) =>
                  ( Admissao(df[i], 2 * entrada.vazao, 2 * entrada.pressao)
                    <=> /\ df[i].VAZAO = entrada.vazao
                        /\ AlvoNaFaixa(df[i], 2 * entrada.pressao,
                                       FracFolgada, FracApertada) )
            /\ SoMinimo(df[i]) =>
                  ( Admissao(df[i], 2 * entrada.vazao, 2 * entrada.pressao)
                    <=> /\ df[i].VAZAO = entrada.vazao
                        /\ AlvoNaFaixa(df[i], 2 * entrada.pressao,
                                       FracApertada, FracFolgada) )

\* C9: no row filtrar_e_classificar returns is a minimum-rotor record with
\* the target pressure below pressure - 0.03 * Pmax, nor a maximum-rotor
\* record with the target pressure above pressure + 0.03 * Pmax (a record of
\* a single-rotor model is both).
C9_ExclusaoDeLimite ==
    Filtrou =>
        \A k \in 1..Len(resultado) :
            LET r == df[resultado[k].idx]
            IN /\ ~ ( /\ r.ROTORNUM # NaN
                      /\ r.ROTORNUM = r.ROTOR_MIN_MODELO
                      /\ 1000 * 2 * entrada.pressao
                           < 2000 * r.PRESSAO - 2 * 30 * r.PRESSAO_MAX_MODELO )
               /\ ~ ( /\ r.ROTORNUM # NaN
                      /\ r.ROTORNUM = r.ROTOR_MAX_MODELO
                      /\ 1000 * 2 * entrada.pressao
                           > 2000 * r.PRESSAO + 2 * 30 * r.PRESSAO_MAX_MODELO )

\* a rotor label without a leading integer
SemInteiro(rot) == rot = <<>> \/ rot[1] \notin Digitos
\* neither the minimum nor the maximum rotor of its model
Interior(r) ==
    \/ r.ROTORNUM = NaN
    \/ r.ROTORNUM # r.ROTOR_MIN_MODELO /\ r.ROTORNUM # r.ROTOR_MAX_MODELO
\* the ranks of the well-formed labels of the model of row i of the file
RanksDoModelo(i) ==
    {extrair_rotor_num(arquivo[j].ROTOR) :
        j \in {k \in 1..Len(arquivo) :
                  /\ arquivo[k].MODELO = arquivo[i].MODELO
                  /\ ~SemInteiro(arquivo[k].ROTOR)}}

\* C10: a record whose rotor is neither the minimum nor the maximum of its
\* model, and every record whose label has no leading integer (its rank is
\* NaN and takes no part in the model's minimum and maximum), is among the
\* admissible candidates iff its flow is the target flow and
\* |pressure - target pressure| <= b * Pmax (b loose: 0.10 in app2, 0.05 in
\* appll).
C10_FaixaSimetrica ==
    Filtrou =>
        LET f == Filtrar(app, df, 2 * entrada.vazao, 2 * entrada.pressao)
        IN \A i \in 1..Len(df) :
              /\ SemInteiro(df[i].ROTOR) =>
                    (df[i].ROTORNUM = NaN /\ Interior(df[i]))
              /\ RanksDoModelo(i) # {} =>
                    /\ df[i].ROTOR_MIN_MODELO = SetMin(RanksDoModelo(i))
                    /\ df[i].ROTOR_MAX_MODELO = SetMax(RanksDoModelo(i))
              /\ Interior(df[i]) =>
                    ( (\E k \in 1..Len(f) : f[k].idx = i)
                      <=> /\ df[i].VAZAO = entrada.vazao
                          /\ 1000 * Abs(2 * df[i].PRESSAO - 2 * entrada.pressao)
                               <= 2 * FracFolgada * df[i].PRESSAO_MAX_MODELO )

\* a record with a malformed label came back for a target further from its
\* pressure than the tight margin, from a model that has well-formed labels
C10_Witness ==
    /\ Filtrou
    /\ \E k \in 1..Len(resultado) :
          /\ SemInteiro(resultado[k].ROTOR)
          /\ RanksDoModelo(resultado[k].idx) # {}
          /\ 1000 * Abs(2 * resultado[k].PRESSAO - 2 * entrada.pressao)
               > 2 * FracApertada * df[resultado[k].idx].PRESSAO_MAX_MODELO

\* ------------------------------------------------------------ the ranking
\* the complete ranking of the admissible candidates of the last direct call
RankingCompleto ==
    Classificar(app,
                Filtrar(app, df, 2 * entrada.vazao, 2 * entrada.pressao),
                2 * entrada.pressao)

\* both relative flow errors are defined and |x's| < |y's|
ErroMenor(x, y) ==
    /\ x.ERRO_DEN # 0
    /\ y.ERRO_DEN # 0
    /\ Abs(x.ERRO_NUM) * y.ERRO_DEN < Abs(y.ERRO_NUM) * x.ERRO_DEN

\* C11: in app2, of two admissible candidates with the same motor size
\* whose efficiencies differ by at most limite_desempate_rendimento, the one
\* with the strictly smaller |relative flow error| is ranked ahead.
C11_DesempatePorCentragem ==
    (Filtrou /\ app = "app2") =>
        LET r == RankingCompleto
        IN \A i, j \in 1..Len(r) :
              ( /\ r[i].MOTOR # NaN
                /\ r[i].MOTOR = r[j].MOTOR
                /\ Abs(r[i].RENDIMENTO - r[j].RENDIMENTO)
                      <= limite_desempate_rendimento
                /\ ErroMenor(r[i], r[j]) )
              => i < j

\* the same CHAVE_DESEMPATE: both +inf, or both the |relative flow error| of
\* the row with equal values (both undefined included)
MesmaChave(x, y) ==
    \/ x.CHAVE = Inf /\ y.CHAVE = Inf
    \/ /\ x.CHAVE # Inf
       /\ y.CHAVE # Inf
       /\ \/ x.ERRO_DEN = 0 /\ y.ERRO_DEN = 0
          \/ /\ x.ERRO_DEN # 0
             /\ y.ERRO_DEN # 0
             /\ Abs(x.ERRO_NUM) * y.ERRO_DEN = Abs(y.ERRO_NUM) * x.ERRO_DEN

\* C12 as stated: in app2, of two admissible candidates with the same motor
\* size and the same tie-break key, the one with the strictly smaller
\* |pressure - target| is ranked ahead.
C12_ProximidadeDePressao ==
    (Filtrou /\ app = "app2") =>
        LET r == RankingCompleto
        IN \A i, j \in 1..Len(r) :
              ( /\ r[i].MOTOR = r[j].MOTOR
                /\ MesmaChave(r[i], r[j])
                /\ Abs(r[i].ERRO_PRESSAO2) < Abs(r[j].ERRO_PRESSAO2) )
              => i < j

\* C12, amended: in app2, of two admissible candidates with the same motor
\* size and the same tie-break key, the one with the strictly higher
\* efficiency is ranked ahead, and at equal efficiency the one with the
\* strictly smaller corrected power; the pressure error decides nothing.
C12_RendimentoDepoisPotencia ==
    (Filtrou /\ app = "app2") =>
        LET r == RankingCompleto
        IN \A i, j \in 1..Len(r) :
              ( /\ r[i].MOTOR = r[j].MOTOR
                /\ MesmaChave(r[i], r[j]) )
              => /\ r[i].RENDIMENTO > r[j].RENDIMENTO => i < j
                 /\ ( /\ r[i].RENDIMENTO = r[j].RENDIMENTO
                      /\ r[i].POT_CORR_NUM < r[j].POT_CORR_NUM ) => i < j

\* two candidates of one motor size, both with key +inf: the more efficient
\* one is ranked first although it is farther from the target pressure and
\* later in the frame
C12_Witness ==
    /\ Filtrou
    /\ app = "app2"
    /\ LET r == RankingCompleto
       IN \E i, j \in 1..Len(r) :
             /\ i < j
             /\ r[i].MOTOR # NaN
             /\ r[i].MOTOR = r[j].MOTOR
             /\ r[i].CHAVE = Inf
             /\ r[j].CHAVE = Inf
             /\ r[i].RENDIMENTO > r[j].RENDIMENTO
             /\ Abs(r[i].ERRO_PRESSAO2) > Abs(r[j].ERRO_PRESSAO2)
             /\ r[i].idx > r[j].idx

\* x has a motor size and y a larger one or none
MotorAntes(x, y) == x.MOTOR # NaN /\ (y.MOTOR = NaN \/ x.MOTOR < y.MOTOR)
\* x's relative flow error is defined and y's is larger or undefined
ErroAntes(x, y) == x.ERRO_DEN # 0 /\ (y.ERRO_DEN = 0 \/ ErroMenor(x, y))
ErroIgual(x, y) ==
    \/ x.ERRO_DEN = 0 /\ y.ERRO_DEN = 0
    \/ /\ x.ERRO_DEN # 0
       /\ y.ERRO_DEN # 0
       /\ Abs(x.ERRO_NUM) * y.ERRO_DEN = Abs(y.ERRO_NUM) * x.ERRO_DEN
\* x is not worse than y under (motor size ascending, efficiency descending,
\* relative flow error ascending, |pressure - target| ascending), a missing
\* value being the worst
NaoPiorSimples(x, y) ==
    \/ MotorAntes(x, y)
    \/ /\ x.MOTOR = y.MOTOR
       /\ \/ x.RENDIMENTO > y.RENDIMENTO
          \/ /\ x.RENDIMENTO = y.RENDIMENTO
             /\ \/ ErroAntes(x, y)
                \/ /\ ErroIgual(x, y)
                   /\ Abs(x.ERRO_PRESSAO2) <= Abs(y.ERRO_PRESSAO2)

\* C13: in appll every returned row is not worse than the row after it
\* under (motor size ascending, efficiency descending, relative flow error
\* ascending, |pressure - target| ascending), and among rows of one motor
\* size the efficiency never increases with position.
C13_OrdemSimples ==
    (pc = "done" /\ app = "appll") =>
        /\ \A i \in 1..(Len(resultado) - 1) :
              NaoPiorSimples(resultado[i], resultado[i + 1])
        /\ \A i, j \in 1..Len(resultado) :
              (i < j /\ resultado[i].MOTOR = resultado[j].MOTOR) =>
                  resultado[i].RENDIMENTO >= resultado[j].RENDIMENTO

\* three rows of one motor size and one efficiency came back: the first two
\* differ in the pressure error only and the frame holds them the other way
\* round, the third has no relative flow error
C13_Witness ==
    /\ Filtrou
    /\ app = "appll"
    /\ Len(resultado) = 3
    /\ resultado[1].MOTOR # NaN
    /\ \A i \in 2..3 :
          /\ resultado[i].MOTOR = resultado[1].MOTOR
          /\ resultado[i].RENDIMENTO = resultado[1].RENDIMENTO
    /\ resultado[1].ERRO_DEN # 0
    /\ ErroIgual(resultado[1], resultado[2])
    /\ Abs(resultado[1].ERRO_PRESSAO2) < Abs(resultado[2].ERRO_PRESSAO2)
    /\ resultado[1].idx > resultado[2].idx
    /\ resultado[3].ERRO_DEN = 0

ArredondaParaCima(motor, num, den) ==
    /\ motor = NaN <=> num > 600 * den
    /\ motor # NaN =>
          /\ motor \in MOTORES_PADRAO
          /\ motor * den >= num
          /\ \A m \in MOTORES_PADRAO : m * den >= num => motor <= m

\* C15 as stated: in every returned row the motor size is the smallest
\* ladder value >= the nameplate power of the row, and undefined exactly
\* when that power exceeds 600.
C15_MotorDaPotenciaNominal ==
    pc = "done" =>
        \A i \in 1..Len(resultado) :
            ArredondaParaCima(resultado[i].MOTOR, resultado[i].POTENCIA, 1)

\* C15, amended: in every returned row the motor size is the smallest
\* ladder value >= the power it is taken from, the nameplate power in appll
\* and the corrected power of the row in app2, and undefined exactly when
\* that power exceeds 600.
C15_MotorDaPotenciaUsada ==
    pc = "done" =>
        \A i \in 1..Len(resultado) :
            IF app = "app2"
            THEN ArredondaParaCima(resultado[i].MOTOR,
                                   resultado[i].POT_CORR_NUM,
                                   resultado[i].POT_CORR_DEN)
            ELSE ArredondaParaCima(resultado[i].MOTOR,
                                   resultado[i].POTENCIA, 1)

\* app2 returned a row whose nameplate power is a ladder value and whose
\* motor size is the next one, and a row above the ladder
C15_Witness ==
    /\ pc = "done"
    /\ app = "app2"
    /\ \E i \in 1..Len(resultado) :
          /\ resultado[i].POTENCIA \in MOTORES_PADRAO
          /\ resultado[i].MOTOR # NaN
          /\ resultado[i].MOTOR > resultado[i].POTENCIA
    /\ \E i \in 1..Len(resultado) : resultado[i].MOTOR = NaN

\* ------------------------------------------------- extremal rotors, app2
\* the rotor rank of the row is its model's maximum or minimum
Extremo(r) ==
    /\ r.ROTORNUM # NaN
    /\ \/ r.ROTORNUM = r.ROTOR_MAX_MODELO
       \/ r.ROTORNUM = r.ROTOR_MIN_MODELO

\* |r.PRESSAO - pressao| <= 0.03 * Pmax of the model
DentroDe3PorCento(r, pressao2) == AlvoNaFaixa(r, pressao2, 30, 30)

\* C16: in app2 every returned row of an extremal rotor is within
\* 0.03 * Pmax of the target pressure, and every extremal-rotor row of the
\* frame with the target flow that is within that bound is an admissible
\* candidate.
C16_ExtremosDentroDe3PorCento ==
    (Filtrou /\ app = "app2") =>
        LET pressao2 == 2 * entrada.pressao
            f == Filtrar(app, df, 2 * entrada.vazao, pressao2)
        IN /\ \A k \in 1..Len(resultado) :
                 Extremo(df[resultado[k].idx]) =>
                     DentroDe3PorCento(df[resultado[k].idx], pressao2)
           /\ \A k \in 1..Len(f) :
                 Extremo(f[k]) => DentroDe3PorCento(f[k], pressao2)
           /\ \A i \in 1..Len(df) :
                 ( /\ Extremo(df[i])
                   /\ df[i].VAZAO = entrada.vazao
                   /\ DentroDe3PorCento(df[i], pressao2) )
                 => \E k \in 1..Len(f) : f[k].idx = df[i].idx

\* an extremal-rotor row passed the mask on its loose side and was cut by
\* the exclusion step, while another extremal-rotor row was returned
C16_Witness ==
    /\ Filtrou
    /\ app = "app2"
    /\ \E i \in 1..Len(df) :
          /\ Extremo(df[i])
          /\ Admissao(df[i], 2 * entrada.vazao, 2 * entrada.pressao)
          /\ ~DentroDe3PorCento(df[i], 2 * entrada.pressao)
          /\ \A k \in 1..Len(resultado) : resultado[k].idx # df[i].idx
    /\ \E k \in 1..Len(resultado) : Extremo(df[resultado[k].idx])

====
